---------------------------- MODULE Spec2Model ----------------------------
(***************************************************************************)
(* Booking lifecycle and availability engine of parkly-api.                *)
(*                                                                         *)
(* The store holds parking lots, bookings and notifications.  Every        *)
(* request handler is modelled by one step per store access (each `await`  *)
(* on the store is a point where other requests, the status sweep and the  *)
(* clock may interleave); the synchronous code between two store accesses  *)
(* belongs to the step of the access that precedes it.                     *)
(*                                                                         *)
(* Time is counted in whole seconds (the code's Dates are milliseconds).   *)
(* Money is an integer; lot prices are drawn even so that the overstay     *)
(* rate pricePerHour * 1.5 stays integral.                                 *)
(***************************************************************************)
EXTENDS Integers, Sequences, FiniteSets, TLC

\* ------------------------------------------------------------------ bounds
MaxBookings == 2     \* bookings ever inserted
MaxDuration == 1     \* hours a request may ask for (and an extension may add)
MaxTicks    == 5     \* clock steps of the half-hour clock
MaxRequests == 4     \* requests received in one behaviour

\* --------------------------------------------------------- program constants
Minute == 60                 \* (1000 * 60) ms
Hour   == 60 * Minute        \* 60 * 60 * 1000 ms
bufferTime == 30 * Minute    \* 30 * 60 * 1000 ms
Null   == -1                 \* an unset (undefined) field

\* ------------------------------------------------------------------ domains
Drivers == {"d1", "d2"}
Owners  == {"o1", "o2"}
Users   == Drivers \cup Owners
Lots    == {"L1", "L2"}
Reqs    == 1..2
role(u) == IF u \in Owners THEN "owner" ELSE "driver"

TickStep   == 30 * Minute
StartTimes == {1 * Hour, 2 * Hour}
Durations  == 1..MaxDuration
PaymentInputs == {"cash", "card", "undefined"}

VARIABLES
  now,            \* the wall clock
  parkings,       \* Parking collection: lot id -> document
  bookings,       \* Booking collection: sequence of documents, _id = index
  notifications,  \* Notification collection: set of documents
  pc,             \* position of each request slot in its handler
  req,            \* locals of each request slot
  sweep,          \* the status sweep: its position and the `now` it read
  served          \* requests received so far

vars == <<now, parkings, bookings, notifications, pc, req, sweep, served>>

\* ------------------------------------------------------------ Booking model
Ids == 1..Len(bookings)

\* Mutant: the pre-save hook missing.
preSave_none(doc) == doc

\* bookingSchema.pre('save'): endTime is recomputed from startTime and duration
preSave(doc) ==
  IF doc.startTime # Null /\ doc.duration # 0
    THEN [doc EXCEPT !.endTime = doc.startTime + doc.duration * Hour]
    ELSE doc

\* new Booking({...}) with the schema defaults
newBooking(user, lot, start, dur, total, pm, st) ==
  [user |-> user, parking |-> lot, startTime |-> start, duration |-> dur,
   endTime |-> Null, totalAmount |-> total, status |-> st,
   paymentMethod |-> pm, qrCode |-> <<>>, extended |-> FALSE,
   originalEndTime |-> Null, isArrived |-> FALSE, isConfirmed |-> FALSE,
   actualStartTime |-> Null, actualEndTime |-> Null, actualDuration |-> Null,
   overstayDuration |-> 0, overstayCharge |-> 0]

\* Mutant: touching intervals counted as overlapping ($gte for $gt).
checkAvailability_touching(store, parkingId, startTime, duration) ==
  LET endTime == startTime + duration * Hour
  IN Cardinality({i \in 1..Len(store) :
        /\ store[i].parking = parkingId
        /\ store[i].status \in {"confirmed", "active"}
        /\ store[i].startTime < endTime
        /\ store[i].endTime >= startTime})

\* Mutant: active bookings left out of the count.
checkAvailability_confirmedOnly(store, parkingId, startTime, duration) ==
  LET endTime == startTime + duration * Hour
  IN Cardinality({i \in 1..Len(store) :
        /\ store[i].parking = parkingId
        /\ store[i].status \in {"confirmed"}
        /\ store[i].startTime < endTime
        /\ store[i].endTime > startTime})

\* bookingSchema.statics.checkAvailability: count of confirmed/active
\* bookings of the lot that overlap [startTime, startTime + duration hours)
checkAvailability(store, parkingId, startTime, duration) ==
  LET endTime == startTime + duration * Hour
  IN Cardinality({i \in 1..Len(store) :
        /\ store[i].parking = parkingId
        /\ store[i].status \in {"confirmed", "active"}
        /\ store[i].startTime < endTime
        /\ store[i].endTime > startTime})

\* bookingSchema.methods.generateQRCode: PARKLY-<_id>-<Date.now()>
generateQRCode(id, t) == <<"PARKLY", id, t>>

\* The unique index on qrCode: a document without the field is indexed as
\* null, so the collection holds at most one document without a token.
qrCodeFree(store, code) == \A i \in 1..Len(store) : store[i].qrCode # code

\* document.save(): writes the paths whose in-memory value differs from the
\* loaded one
modifiedPaths(loaded, doc) == {f \in DOMAIN doc : doc[f] # loaded[f]}
applyDelta(stored, delta) ==
  [f \in DOMAIN stored |-> IF f \in DOMAIN delta THEN delta[f] ELSE stored[f]]
deltaOf(loaded, doc) == [f \in modifiedPaths(loaded, doc) |-> doc[f]]

\* ------------------------------------------------------------------ locals
NoDoc == newBooking("none", "none", Null, 0, 0, "none", "none")
NoLot == [owner |-> "none", totalSpots |-> 0, pricePerHour |-> 0,
          isAvailable |-> FALSE]
\* user: req.user.id; id: req.params.id; arg: the body's field (status,
\* additionalHours, paymentMethod); doc: the document in memory; loaded: the
\* document as it was read; parking: the lot read or populated
NoReq == [user |-> "none", id |-> 0, arg |-> "none", doc |-> NoDoc,
          loaded |-> NoDoc, parking |-> NoLot]

\* The response: the slot is free again.
Finish(r) == /\ pc' = [pc EXCEPT ![r] = "idle"]
             /\ req' = [req EXCEPT ![r] = NoReq]

Goto(r, pos) == pc' = [pc EXCEPT ![r] = pos]

\* A request enters the lowest free slot once the route's middleware
\* (protect, authorize) has let it through.
freeSlot(r) == pc[r] = "idle" /\ \A q \in Reqs : q < r => pc[q] # "idle"

\* routes/booking.js: the roles authorize() lets through on each route
routeRoles(op) ==
  CASE op \in {"createBooking", "cancelBooking", "extendBooking",
               "markAsArrived"} -> {"user", "driver"}
    [] op \in {"updateBookingStatus", "scanBooking", "confirmBooking",
               "updateParking"} -> {"owner"}
    [] OTHER -> {"user", "driver", "owner"}

Receive(r, op, u, id, arg) ==
  /\ freeSlot(r)
  /\ role(u) \in routeRoles(op)
  /\ pc' = [pc EXCEPT ![r] = op]
  /\ req' = [req EXCEPT ![r] = [NoReq EXCEPT !.user = u, !.id = id, !.arg = arg]]
  /\ served' = served + 1
  /\ UNCHANGED <<now, parkings, bookings, notifications, sweep>>

\* Booking.findById: the document read, and the in-memory copy `doc` as the
\* synchronous code up to the next store access leaves it
Loaded(r, pos, doc) ==
  /\ pc' = [pc EXCEPT ![r] = pos]
  /\ req' = [req EXCEPT ![r].loaded = bookings[req[r].id],
                        ![r].doc = doc,
                        ![r].parking = parkings[bookings[req[r].id].parking]]

\* Mutant: a save that is dropped when the stored status is no longer the
\* one that was loaded.
save_ifUnchanged(r) ==
  bookings' =
    IF bookings[req[r].id].status = req[r].loaded.status
      THEN [bookings EXCEPT ![req[r].id] =
              applyDelta(@, deltaOf(req[r].loaded, preSave(req[r].doc)))]
      ELSE bookings

\* booking.save(): the pre-save hook, then the modified paths are written
save(r) ==
  bookings' = [bookings EXCEPT ![req[r].id] =
     applyDelta(@, deltaOf(req[r].loaded, preSave(req[r].doc)))]

\* ---------------------------------------------------------------------- Init
Init ==
  /\ now = 0
  /\ parkings = [l \in Lots |->
        [owner |-> IF l = "L1" THEN "o1" ELSE "o2",
         totalSpots |-> IF l = "L1" THEN 1 ELSE 2,
         pricePerHour |-> IF l = "L1" THEN 10 ELSE 20,
         isAvailable |-> TRUE]]
  /\ bookings = <<>>
  /\ notifications = {}
  /\ pc = [r \in Reqs |-> "idle"]
  /\ req = [r \in Reqs |-> NoReq]
  /\ sweep = [pc |-> "idle", now |-> 0]
  /\ served = 0

\* ------------------------------------------------------------------- clock
Tick(step) ==
  /\ now + step <= MaxTicks * TickStep
  /\ now' = now + step
  /\ UNCHANGED <<parkings, bookings, notifications, pc, req, sweep, served>>

\* ------------------------------------------------------------ Notification
notificationTypes ==
  {"booking_created", "booking_confirmed", "booking_cancelled",
   "booking_reminder", "system"}

\* Notification.create inside try/catch: the document is stored when the
\* store accepts it (ok) and its type passes the schema's enum; a failure is
\* logged and swallowed.
notify(ok, user, type, id) ==
  notifications' =
    IF ok /\ type \in notificationTypes
      THEN notifications \cup
             {[user |-> user, type |-> type, relatedBooking |-> id]}
      ELSE notifications

\* ------------------------------------------------------------ createBooking
\* Creates in flight count against the bound on inserted bookings.
creating ==
  {r \in Reqs : pc[r] \in {"createBooking", "createBooking_check",
                           "createBooking_create"}}

createBooking_request(r, max, u, parkingId, startTime, duration, paymentMethod) ==
  /\ Len(bookings) + Cardinality(creating) < max
  /\ freeSlot(r)
  /\ role(u) \in routeRoles("createBooking")
  /\ pc' = [pc EXCEPT ![r] = "createBooking"]
  /\ req' = [req EXCEPT ![r] =
        [NoReq EXCEPT
           !.user = u, !.arg = paymentMethod,
           !.doc = newBooking(u, parkingId, startTime, duration, 0,
                              "none", "none")]]
  /\ served' = served + 1
  /\ UNCHANGED <<now, parkings, bookings, notifications, sweep>>

\* lines 20-33: validation, Parking.findById, the lot's availability flag
createBooking_find(r) ==
  /\ pc[r] = "createBooking"
  /\ UNCHANGED <<now, parkings, bookings, notifications, sweep, served>>
  /\ LET d == req[r].doc
     IN IF \/ d.duration = 0
           \/ d.parking \notin DOMAIN parkings
           \/ ~parkings[d.parking].isAvailable
          THEN Finish(r)
          ELSE /\ Goto(r, "createBooking_check")
               /\ req' = [req EXCEPT ![r].parking = parkings[d.parking]]

\* Mutant: > for >= in the capacity test.
createBooking_admits_offByOne(conflictingBookings, totalSpots) ==
  ~(conflictingBookings > totalSpots)

\* lines 35-41: the availability count against the capacity read before
createBooking_admits(conflictingBookings, totalSpots) ==
  ~(conflictingBookings >= totalSpots)

\* line 55: status: paymentMethod === 'cash' ? 'confirmed' : 'pending'
createBooking_status(paymentMethod) ==
  IF paymentMethod = "cash" THEN "confirmed" ELSE "pending"

\* line 53: paymentMethod: paymentMethod || 'cash'
createBooking_paymentMethod(paymentMethod) ==
  IF paymentMethod = "undefined" THEN "cash" ELSE paymentMethod

createBooking_check(r) ==
  /\ pc[r] = "createBooking_check"
  /\ UNCHANGED <<now, parkings, bookings, notifications, sweep, served>>
  /\ LET d == req[r].doc
         conflictingBookings ==
           checkAvailability(bookings, d.parking, d.startTime, d.duration)
     IN IF createBooking_admits(conflictingBookings, req[r].parking.totalSpots)
          THEN /\ Goto(r, "createBooking_create")
               /\ req' = [req EXCEPT ![r].doc =
                    [d EXCEPT
                       !.totalAmount = req[r].parking.pricePerHour * d.duration,
                       !.paymentMethod = createBooking_paymentMethod(req[r].arg),
                       !.status = createBooking_status(req[r].arg)]]
          ELSE Finish(r)

\* Booking.create (insert, with the pre-save hook), then generateQRCode in
\* memory.  The insert is refused by the unique index on qrCode while another
\* document without a token is stored.
createBooking_create(r) ==
  /\ pc[r] = "createBooking_create"
  /\ UNCHANGED <<now, parkings, notifications, sweep, served>>
  /\ IF qrCodeFree(bookings, <<>>)
       THEN LET id == Len(bookings) + 1
                created == preSave(req[r].doc)
            IN /\ bookings' = Append(bookings, created)
               /\ Goto(r, "createBooking_save")
               /\ req' = [req EXCEPT
                    ![r].id = id,
                    ![r].loaded = created,
                    ![r].doc = [created EXCEPT !.qrCode = generateQRCode(id, now)]]
       ELSE Finish(r) /\ UNCHANGED bookings

\* booking.save() of the token, the owner's notification, the response
createBooking_save(r, ok) ==
  /\ pc[r] = "createBooking_save"
  /\ UNCHANGED <<now, parkings, sweep, served>>
  /\ save(r)
  /\ notify(ok, req[r].parking.owner, "booking_created", req[r].id)
  /\ Finish(r)

\* ------------------------------------------------------ derived timer values
\* virtual elapsedTime, in minutes, at time t
elapsedTime(doc, t) ==
  IF doc.actualStartTime = Null THEN 0
  ELSE LET endTime == IF doc.actualEndTime # Null THEN doc.actualEndTime ELSE t
       IN (endTime - doc.actualStartTime) \div Minute

\* Mutant: the remaining time not clamped at 0.
remainingTime_unclamped(doc, t) ==
  IF doc.actualStartTime = Null THEN doc.duration * 60
  ELSE doc.duration * 60 - elapsedTime(doc, t)

\* virtual remainingTime, in minutes
remainingTime(doc, t) ==
  IF doc.actualStartTime = Null THEN doc.duration * 60
  ELSE LET remaining == doc.duration * 60 - elapsedTime(doc, t)
       IN IF remaining > 0 THEN remaining ELSE 0

\* virtual isOverstayed
isOverstayed(doc, t) ==
  IF doc.actualStartTime = Null \/ doc.status = "completed" THEN FALSE
  ELSE elapsedTime(doc, t) > doc.duration * 60

\* Mutant: a partial hour not billed (floor for ceil).
floorHours(minutes) == minutes \div 60

\* Math.ceil(minutes / 60)
ceilHours(minutes) == 0 - ((0 - minutes) \div 60)

\* pricePerHour * 1.5 (prices are even)
overstayRate(pricePerHour) == (pricePerHour * 3) \div 2

\* bookingSchema.methods.calculateOverstayCharge, with the lot it reads
calculateOverstayCharge(doc, t, lots) ==
  IF ~isOverstayed(doc, t) THEN doc
  ELSE IF doc.parking \notin DOMAIN lots THEN doc
  ELSE LET overstayMinutes == elapsedTime(doc, t) - doc.duration * 60
           overstayHours == ceilHours(overstayMinutes)
           charge == overstayHours * overstayRate(lots[doc.parking].pricePerHour)
       IN [doc EXCEPT !.overstayDuration = overstayMinutes,
                      !.overstayCharge = charge]

\* ------------------------------------------------------ updateBookingStatus
allowedStatuses == {"confirmed", "active", "completed", "cancelled"}

\* Mutant: the status assigned before the activation guard reaches the store
\* when the guard rejects.
updateBookingStatus_find_writeThrough(r) ==
  /\ pc[r] = "updateBookingStatus"
  /\ UNCHANGED <<now, parkings, notifications, sweep, served>>
  /\ LET status == req[r].arg
         id == req[r].id
     IN IF \/ status \notin allowedStatuses
           \/ id \notin Ids
           \/ (bookings[id].user # req[r].user /\ role(req[r].user) # "owner")
          THEN Finish(r) /\ UNCHANGED bookings
          ELSE IF status = "active" /\ bookings[id].startTime > now + bufferTime
                 THEN /\ Finish(r)
                      /\ bookings' = [bookings EXCEPT ![id].status = status]
                 ELSE /\ UNCHANGED bookings
                      /\ Loaded(r, "updateBookingStatus_save",
                                [bookings[id] EXCEPT !.status = status])

\* lines 146-175: the status is assigned to the document in memory (l.165)
\* before the activation guard (l.168-175); a rejected request returns
\* without saving, so the assignment is dropped with the document.
updateBookingStatus_find(r) ==
  /\ pc[r] = "updateBookingStatus"
  /\ UNCHANGED <<now, parkings, bookings, notifications, sweep, served>>
  /\ LET status == req[r].arg
         id == req[r].id
     IN IF \/ status \notin allowedStatuses
           \/ id \notin Ids
           \/ (bookings[id].user # req[r].user /\ role(req[r].user) # "owner")
           \/ (status = "active" /\ bookings[id].startTime > now + bufferTime)
          THEN Finish(r)
          ELSE Loaded(r, "updateBookingStatus_save",
                      [bookings[id] EXCEPT !.status = status])

updateBookingStatus_save(r) ==
  /\ pc[r] = "updateBookingStatus_save"
  /\ save(r) /\ Finish(r)
  /\ UNCHANGED <<now, parkings, notifications, sweep, served>>

\* ------------------------------------------------------------ extendBooking
extendBooking_find(r) ==
  /\ pc[r] = "extendBooking"
  /\ UNCHANGED <<now, parkings, bookings, notifications, sweep, served>>
  /\ LET id == req[r].id
     IN IF \/ req[r].arg < 1
           \/ id \notin Ids
           \/ bookings[id].user # req[r].user
           \/ bookings[id].status \notin {"active", "confirmed"}
          THEN Finish(r)
          ELSE Loaded(r, "extendBooking_check", bookings[id])

\* Mutant: > for >= in the capacity test of the extension.
extendBooking_check_offByOne(r) ==
  /\ pc[r] = "extendBooking_check"
  /\ UNCHANGED <<now, parkings, bookings, notifications, sweep, served>>
  /\ LET booking == req[r].doc
         additionalHours == req[r].arg
         conflictingBookings ==
           checkAvailability(bookings, booking.parking, booking.endTime,
                             additionalHours)
     IN IF conflictingBookings > req[r].parking.totalSpots
          THEN Finish(r)
          ELSE /\ Goto(r, "extendBooking_save")
               /\ req' = [req EXCEPT ![r].doc =
                    [booking EXCEPT
                       !.originalEndTime =
                          IF @ = Null THEN booking.endTime ELSE @,
                       !.duration = @ + additionalHours,
                       !.endTime = booking.endTime + additionalHours * Hour,
                       !.totalAmount =
                          @ + req[r].parking.pricePerHour * additionalHours,
                       !.extended = TRUE]]

\* Mutant: originalEndTime overwritten by every extension.
extendBooking_check_resetOriginal(r) ==
  /\ pc[r] = "extendBooking_check"
  /\ UNCHANGED <<now, parkings, bookings, notifications, sweep, served>>
  /\ LET booking == req[r].doc
         additionalHours == req[r].arg
         conflictingBookings ==
           checkAvailability(bookings, booking.parking, booking.endTime,
                             additionalHours)
     IN IF conflictingBookings >= req[r].parking.totalSpots
          THEN Finish(r)
          ELSE /\ Goto(r, "extendBooking_save")
               /\ req' = [req EXCEPT ![r].doc =
                    [booking EXCEPT
                       !.originalEndTime = booking.endTime,
                       !.duration = @ + additionalHours,
                       !.endTime = booking.endTime + additionalHours * Hour,
                       !.totalAmount =
                          @ + req[r].parking.pricePerHour * additionalHours,
                       !.extended = TRUE]]

\* lines 209-232: the availability count for [endTime, endTime + additional
\* hours), then the in-memory update
extendBooking_check(r) ==
  /\ pc[r] = "extendBooking_check"
  /\ UNCHANGED <<now, parkings, bookings, notifications, sweep, served>>
  /\ LET booking == req[r].doc
         additionalHours == req[r].arg
         newEndTime == booking.endTime + additionalHours * Hour
         conflictingBookings ==
           checkAvailability(bookings, booking.parking, booking.endTime,
                             additionalHours)
         additionalAmount == req[r].parking.pricePerHour * additionalHours
     IN IF conflictingBookings >= req[r].parking.totalSpots
          THEN Finish(r)
          ELSE /\ Goto(r, "extendBooking_save")
               /\ req' = [req EXCEPT ![r].doc =
                    [booking EXCEPT
                       !.originalEndTime =
                          IF @ = Null THEN booking.endTime ELSE @,
                       !.duration = @ + additionalHours,
                       !.endTime = newEndTime,
                       !.totalAmount = @ + additionalAmount,
                       !.extended = TRUE]]

extendBooking_save(r) ==
  /\ pc[r] = "extendBooking_save"
  /\ save(r) /\ Finish(r)
  /\ UNCHANGED <<now, parkings, notifications, sweep, served>>

\* ------------------------------------------------------------ cancelBooking
\* line 257-259: hoursUntilStart = (startTime - now) / (1000*60*60) < 1
\* Mutant: <= for < at the one-hour limit.
cancelBooking_tooLate_inclusive(startTime, t) == startTime - t <= Hour

cancelBooking_tooLate(startTime, t) == startTime - t < Hour

cancelBooking_find(r) ==
  /\ pc[r] = "cancelBooking"
  /\ UNCHANGED <<now, parkings, bookings, notifications, sweep, served>>
  /\ LET id == req[r].id
     IN IF \/ id \notin Ids
           \/ bookings[id].user # req[r].user
           \/ cancelBooking_tooLate(bookings[id].startTime, now)
           \/ bookings[id].status \notin {"pending", "confirmed"}
          THEN Finish(r)
          ELSE Loaded(r, "cancelBooking_save",
                      [bookings[id] EXCEPT !.status = "cancelled"])

cancelBooking_save(r) ==
  /\ pc[r] = "cancelBooking_save"
  /\ save(r) /\ Finish(r)
  /\ UNCHANGED <<now, parkings, notifications, sweep, served>>

\* ------------------------------------------------------------ markAsArrived
\* Mutant: the driver guard missing.
markAsArrived_find_anyDriver(r) ==
  /\ pc[r] = "markAsArrived"
  /\ UNCHANGED <<now, parkings, bookings, notifications, sweep, served>>
  /\ LET id == req[r].id
     IN IF \/ id \notin Ids
           \/ bookings[id].startTime > now + bufferTime
           \/ bookings[id].status # "confirmed"
           \/ bookings[id].isArrived
          THEN Finish(r)
          ELSE Loaded(r, "markAsArrived_save",
                      [bookings[id] EXCEPT !.isArrived = TRUE])

markAsArrived_find(r) ==
  /\ pc[r] = "markAsArrived"
  /\ UNCHANGED <<now, parkings, bookings, notifications, sweep, served>>
  /\ LET id == req[r].id
     IN IF \/ id \notin Ids
           \/ bookings[id].user # req[r].user
           \/ bookings[id].startTime > now + bufferTime
           \/ bookings[id].status # "confirmed"
           \/ bookings[id].isArrived
          THEN Finish(r)
          ELSE Loaded(r, "markAsArrived_save",
                      [bookings[id] EXCEPT !.isArrived = TRUE])

markAsArrived_save(r) ==
  /\ pc[r] = "markAsArrived_save"
  /\ save(r) /\ Finish(r)
  /\ UNCHANGED <<now, parkings, notifications, sweep, served>>

\* ------------------------------------------------------------ confirmBooking
\* Mutant: the arrival guard missing.
confirmBooking_find_noArrival(r) ==
  /\ pc[r] = "confirmBooking"
  /\ UNCHANGED <<now, parkings, bookings, notifications, sweep, served>>
  /\ LET id == req[r].id
     IN IF \/ id \notin Ids
           \/ parkings[bookings[id].parking].owner # req[r].user
           \/ bookings[id].isConfirmed
           \/ bookings[id].status # "confirmed"
           \/ bookings[id].startTime > now + 30 * Minute
          THEN Finish(r)
          ELSE Loaded(r, "confirmBooking_save",
                      [bookings[id] EXCEPT !.isConfirmed = TRUE,
                                           !.status = "active",
                                           !.actualStartTime = now])

\* Mutant: actualStartTime not set by the confirmation.
confirmBooking_find_noStart(r) ==
  /\ pc[r] = "confirmBooking"
  /\ UNCHANGED <<now, parkings, bookings, notifications, sweep, served>>
  /\ LET id == req[r].id
     IN IF \/ id \notin Ids
           \/ parkings[bookings[id].parking].owner # req[r].user
           \/ bookings[id].isConfirmed
           \/ ~bookings[id].isArrived
           \/ bookings[id].status # "confirmed"
           \/ bookings[id].startTime > now + 30 * Minute
          THEN Finish(r)
          ELSE Loaded(r, "confirmBooking_save",
                      [bookings[id] EXCEPT !.isConfirmed = TRUE,
                                           !.status = "active"])

confirmBooking_find(r) ==
  /\ pc[r] = "confirmBooking"
  /\ UNCHANGED <<now, parkings, bookings, notifications, sweep, served>>
  /\ LET id == req[r].id
     IN IF \/ id \notin Ids
           \/ parkings[bookings[id].parking].owner # req[r].user
           \/ bookings[id].isConfirmed
           \/ ~bookings[id].isArrived
           \/ bookings[id].status # "confirmed"
           \/ bookings[id].startTime > now + 30 * Minute
          THEN Finish(r)
          ELSE Loaded(r, "confirmBooking_save",
                      [bookings[id] EXCEPT !.isConfirmed = TRUE,
                                           !.status = "active",
                                           !.actualStartTime = now])

\* Mutant: the confirmation dropped when the notification fails.
confirmBooking_save_rollback(r, ok) ==
  /\ pc[r] = "confirmBooking_save"
  /\ IF ok THEN save(r) ELSE UNCHANGED bookings
  /\ notify(ok, req[r].doc.user, "booking_confirmed", req[r].id)
  /\ Finish(r)
  /\ UNCHANGED <<now, parkings, sweep, served>>

confirmBooking_save(r, ok) ==
  /\ pc[r] = "confirmBooking_save"
  /\ save(r)
  /\ notify(ok, req[r].doc.user, "booking_confirmed", req[r].id)
  /\ Finish(r)
  /\ UNCHANGED <<now, parkings, sweep, served>>

\* ----------------------------------------------------------- completeBooking
\* lines 485-504: the guards of completeBooking: 404, 403 and the two 400
completeBooking_rejects(user, id) ==
  \/ id \notin Ids
  \/ parkings[bookings[id].parking].owner # user
  \/ bookings[id].status # "active"
  \/ bookings[id].actualStartTime = Null

\* Mutant: the guard on actualStartTime left out.
completeBooking_find_noStartGuard(r) ==
  /\ pc[r] = "completeBooking"
  /\ UNCHANGED <<now, parkings, bookings, notifications, sweep, served>>
  /\ LET id == req[r].id
     IN IF \/ id \notin Ids
           \/ parkings[bookings[id].parking].owner # req[r].user
           \/ bookings[id].status # "active"
          THEN Finish(r)
          ELSE LET timed == [bookings[id] EXCEPT
                               !.actualEndTime = now,
                               !.actualDuration =
                                  (now - bookings[id].actualStartTime)
                                     \div Minute]
               IN IF isOverstayed(timed, now)
                    THEN Loaded(r, "completeBooking_charge", timed)
                    ELSE Loaded(r, "completeBooking_save",
                                [timed EXCEPT !.status = "completed"])

\* lines 506-517: when the booking is overstayed the charge is computed
\* after one more read (the lot), otherwise the status is set at once
completeBooking_find(r) ==
  /\ pc[r] = "completeBooking"
  /\ UNCHANGED <<now, parkings, bookings, notifications, sweep, served>>
  /\ LET id == req[r].id
     IN IF completeBooking_rejects(req[r].user, id)
          THEN Finish(r)
          ELSE LET timed == [bookings[id] EXCEPT
                               !.actualEndTime = now,
                               !.actualDuration =
                                  (now - bookings[id].actualStartTime)
                                     \div Minute]
               IN IF isOverstayed(timed, now)
                    THEN Loaded(r, "completeBooking_charge", timed)
                    ELSE Loaded(r, "completeBooking_save",
                                [timed EXCEPT !.status = "completed"])

completeBooking_charge(r) ==
  /\ pc[r] = "completeBooking_charge"
  /\ UNCHANGED <<now, parkings, bookings, notifications, sweep, served>>
  /\ Goto(r, "completeBooking_save")
  /\ req' = [req EXCEPT ![r].doc =
        [calculateOverstayCharge(@, now, parkings) EXCEPT
           !.status = "completed"]]

\* lines 553-560: summary.finalAmount of the response
completeBooking_finalAmount(booking) ==
  booking.totalAmount + booking.overstayCharge

completeBooking_save(r, ok) ==
  /\ pc[r] = "completeBooking_save"
  /\ save(r)
  /\ notify(ok, req[r].doc.user, "booking_completed", req[r].id)
  /\ Finish(r)
  /\ UNCHANGED <<now, parkings, sweep, served>>

\* -------------------------------------------------------------- scanBooking
\* Mutant: the status left out of the validity.
scanBooking_isValid_anyStatus(booking, t) ==
  booking.startTime <= t /\ booking.endTime >= t

\* lines 329-336: isValid: isActive && booking.status === 'active'
scanBooking_isValid(booking, t) ==
  LET isActive == booking.startTime <= t /\ booking.endTime >= t
  IN isActive /\ booking.status = "active"

\* lines 309-336: Booking.findOne({qrCode}), the owner guard, the validity;
\* arg holds the token of the body and then isValid of the response
scanBooking_find(r) ==
  /\ pc[r] = "scanBooking"
  /\ UNCHANGED <<now, parkings, bookings, notifications, sweep, served>>
  /\ LET qrCode == req[r].arg
         found == {i \in Ids : bookings[i].qrCode = qrCode}
     IN IF qrCode = <<>> \/ found = {}
          THEN Finish(r)
          ELSE LET id == CHOOSE i \in found : TRUE
               IN IF parkings[bookings[id].parking].owner # req[r].user
                    THEN Finish(r)
                    ELSE /\ Goto(r, "scanBooking_respond")
                         /\ req' = [req EXCEPT
                              ![r].id = id,
                              ![r].loaded = bookings[id],
                              ![r].arg = scanBooking_isValid(bookings[id], now)]

\* lines 331-340: res.status(200).json({... isValid ...})
scanBooking_respond(r) ==
  /\ pc[r] = "scanBooking_respond"
  /\ Finish(r)
  /\ UNCHANGED <<now, parkings, bookings, notifications, sweep, served>>

\* --------------------------------------------------------- getBookingStatus
\* lines 598-611: statusInfo of the response
getBookingStatus_statusInfo(booking, owner, user) ==
  [isArrived |-> booking.isArrived,
   isConfirmed |-> booking.isConfirmed,
   status |-> booking.status,
   canMarkArrived |-> /\ booking.user = user
                      /\ ~booking.isArrived
                      /\ booking.status = "confirmed",
   canConfirm |-> /\ owner = user
                  /\ ~booking.isConfirmed
                  /\ booking.isArrived
                  /\ booking.status = "confirmed",
   canComplete |-> owner = user /\ booking.status = "active"]

\* lines 566-596: Booking.findById, the access guard (the booking's driver
\* or the lot's owner); arg holds statusInfo of the response
getBookingStatus_find(r) ==
  /\ pc[r] = "getBookingStatus"
  /\ UNCHANGED <<now, parkings, bookings, notifications, sweep, served>>
  /\ LET id == req[r].id
     IN IF id \notin Ids
          THEN Finish(r)
          ELSE LET owner == parkings[bookings[id].parking].owner
               IN IF bookings[id].user # req[r].user /\ owner # req[r].user
                    THEN Finish(r)
                    ELSE /\ Goto(r, "getBookingStatus_respond")
                         /\ req' = [req EXCEPT
                              ![r].loaded = bookings[id],
                              ![r].arg = getBookingStatus_statusInfo(
                                           bookings[id], owner, req[r].user)]

\* lines 598-613: res.status(200).json({... statusInfo ...})
getBookingStatus_respond(r) ==
  /\ pc[r] = "getBookingStatus_respond"
  /\ Finish(r)
  /\ UNCHANGED <<now, parkings, bookings, notifications, sweep, served>>

\* -------------------------------------------------- checkParkingAvailability
\* Mutant: touching intervals counted as overlapping ($gte for $gt).
checkParkingAvailability_activeBookings_touching(store, parkingId, startTimeDate, duration) ==
  LET endTime == startTimeDate + duration * Hour
  IN Cardinality({i \in 1..Len(store) :
        /\ store[i].parking = parkingId
        /\ store[i].status \in {"confirmed", "active"}
        /\ store[i].startTime < endTime
        /\ store[i].endTime >= startTimeDate})

\* parkingController.js lines 343-349: Booking.countDocuments of the endpoint
checkParkingAvailability_activeBookings(store, parkingId, startTimeDate, duration) ==
  LET endTime == startTimeDate + duration * Hour
  IN Cardinality({i \in 1..Len(store) :
        /\ store[i].parking = parkingId
        /\ store[i].status \in {"confirmed", "active"}
        /\ store[i].startTime < endTime
        /\ store[i].endTime > startTimeDate})

\* lines 351-356: availableSpots and available of the response
checkParkingAvailability_availableSpots(totalSpots, activeBookings) ==
  IF totalSpots - activeBookings > 0 THEN totalSpots - activeBookings ELSE 0

\* lines 329-338: the query's validation and Parking.findById; arg holds
\* the lot id and the query, and then the response data as well
checkParkingAvailability_find(r) ==
  /\ pc[r] = "checkParkingAvailability"
  /\ UNCHANGED <<now, parkings, bookings, notifications, sweep, served>>
  /\ IF \/ req[r].arg.duration = 0
        \/ req[r].arg.id \notin DOMAIN parkings
       THEN Finish(r)
       ELSE /\ Goto(r, "checkParkingAvailability_count")
            /\ req' = [req EXCEPT ![r].parking = parkings[req[r].arg.id]]

\* lines 340-351: the count and the free spots
checkParkingAvailability_count(r) ==
  /\ pc[r] = "checkParkingAvailability_count"
  /\ UNCHANGED <<now, parkings, bookings, notifications, sweep, served>>
  /\ LET q == req[r].arg
         activeBookings ==
           checkParkingAvailability_activeBookings(
              bookings, q.id, q.startTime, q.duration)
         availableSpots ==
           checkParkingAvailability_availableSpots(
              req[r].parking.totalSpots, activeBookings)
     IN /\ Goto(r, "checkParkingAvailability_respond")
        /\ req' = [req EXCEPT ![r].arg =
              [id |-> q.id, startTime |-> q.startTime,
               duration |-> q.duration,
               available |-> availableSpots > 0,
               availableSpots |-> availableSpots,
               totalSpots |-> req[r].parking.totalSpots]]

\* lines 353-363: res.status(200).json({... available ...})
checkParkingAvailability_respond(r) ==
  /\ pc[r] = "checkParkingAvailability_respond"
  /\ Finish(r)
  /\ UNCHANGED <<now, parkings, bookings, notifications, sweep, served>>

\* ------------------------------------------------------------ updateParking
\* parkingController.js lines 224-225: a field absent from the body (0 here)
\* keeps the lot's value
updateParking_updateData(parking, body) ==
  [parking EXCEPT
     !.totalSpots = IF body.totalSpots # 0 THEN body.totalSpots ELSE @,
     !.pricePerHour = IF body.pricePerHour # 0 THEN body.pricePerHour ELSE @]

\* lines 117-233: Parking.findById, the owner guard, Object.assign; arg
\* holds the lot's id and the body, and then the lot's id and the lot in
\* memory
updateParking_find(r) ==
  /\ pc[r] = "updateParking"
  /\ UNCHANGED <<now, parkings, bookings, notifications, sweep, served>>
  /\ LET l == req[r].arg.id
     IN IF l \notin DOMAIN parkings \/ parkings[l].owner # req[r].user
          THEN Finish(r)
          ELSE /\ Goto(r, "updateParking_save")
               /\ req' = [req EXCEPT
                    ![r].parking = parkings[l],
                    ![r].arg = [id |-> l,
                                lot |-> updateParking_updateData(parkings[l],
                                                                 req[r].arg)]]

\* line 234: parking.save() writes the modified paths of the lot
updateParking_save(r) ==
  /\ pc[r] = "updateParking_save"
  /\ parkings' = [parkings EXCEPT ![req[r].arg.id] =
        applyDelta(@, deltaOf(req[r].parking, req[r].arg.lot))]
  /\ Finish(r)
  /\ UNCHANGED <<now, bookings, notifications, sweep, served>>

\* ---------------------------------------------------- updateBookingStatuses
\* The sweep: two updateMany calls with the `now` read at its start.
bulkUpdate(store, matched, status) ==
  [i \in 1..Len(store) |->
     IF i \in matched THEN [store[i] EXCEPT !.status = status] ELSE store[i]]

\* Mutant: the first pass promoting one stage per run (pending bookings in
\* their window to confirmed, confirmed ones to active).
updateBookingStatuses_activated_staged(store, t) ==
  [i \in 1..Len(store) |->
     IF store[i].startTime <= t /\ store[i].endTime >= t
       THEN IF store[i].status = "pending"
              THEN [store[i] EXCEPT !.status = "confirmed"]
              ELSE IF store[i].status = "confirmed"
                     THEN [store[i] EXCEPT !.status = "active"]
                     ELSE store[i]
       ELSE store[i]]

\* lines 10-17: updateMany({status: 'confirmed', startTime <= now,
\* endTime >= now}, {status: 'active'})
updateBookingStatuses_activated(store, t) ==
  bulkUpdate(store,
             {i \in 1..Len(store) : /\ store[i].status = "confirmed"
                                    /\ store[i].startTime <= t
                                    /\ store[i].endTime >= t},
             "active")

\* Mutant: $lte for $lt in the second pass.
updateBookingStatuses_completed_inclusive(store, t) ==
  bulkUpdate(store,
             {i \in 1..Len(store) :
                 /\ store[i].status \in {"active", "confirmed"}
                 /\ store[i].endTime <= t},
             "completed")

\* lines 20-26: updateMany({status in [active, confirmed], endTime < now},
\* {status: 'completed'})
updateBookingStatuses_completed(store, t) ==
  bulkUpdate(store,
             {i \in 1..Len(store) :
                 /\ store[i].status \in {"active", "confirmed"}
                 /\ store[i].endTime < t},
             "completed")

\* lines 6-27: one whole run of the sweep on a store nobody else writes
updateBookingStatuses(store, t) ==
  updateBookingStatuses_completed(updateBookingStatuses_activated(store, t), t)

updateBookingStatuses_activate ==
  /\ sweep.pc = "idle"
  /\ bookings' = updateBookingStatuses_activated(bookings, now)
  /\ sweep' = [pc |-> "complete", now |-> now]
  /\ UNCHANGED <<now, parkings, notifications, pc, req, served>>

updateBookingStatuses_complete ==
  /\ sweep.pc = "complete"
  /\ bookings' = updateBookingStatuses_completed(bookings, sweep.now)
  /\ sweep' = [pc |-> "idle", now |-> 0]
  /\ UNCHANGED <<now, parkings, notifications, pc, req, served>>

\* ------------------------------------------------------------- the program
\* The steps a request in flight takes, whatever its handler.
step(r, ok) ==
  \/ createBooking_find(r)
  \/ createBooking_check(r)
  \/ createBooking_create(r)
  \/ createBooking_save(r, ok)
  \/ updateBookingStatus_find(r)
  \/ updateBookingStatus_save(r)
  \/ extendBooking_find(r)
  \/ extendBooking_check(r)
  \/ extendBooking_save(r)
  \/ cancelBooking_find(r)
  \/ cancelBooking_save(r)
  \/ markAsArrived_find(r)
  \/ markAsArrived_save(r)
  \/ confirmBooking_find(r)
  \/ confirmBooking_save(r, ok)

\* completeBooking is exported by the controller but routes/booking.js
\* mounts no route on it: it runs only where it is called directly.
completeBooking_step(r, ok) ==
  \/ completeBooking_find(r)
  \/ completeBooking_charge(r)
  \/ completeBooking_save(r, ok)

\* The requests that arrive: their users, lots and bodies.
request(r, max, drivers, owners, lots, starts, durs, pms) ==
  \/ \E u \in drivers, l \in lots, s \in starts, d \in durs, pm \in pms :
        createBooking_request(r, max, u, l, s, d, pm)
  \/ \E u \in owners, id \in Ids, st \in allowedStatuses :
        Receive(r, "updateBookingStatus", u, id, st)
  \/ \E u \in drivers, id \in Ids, h \in Durations :
        /\ bookings[id].duration + h <= MaxDuration + 1
        /\ Receive(r, "extendBooking", u, id, h)
  \/ \E u \in drivers, id \in Ids : Receive(r, "cancelBooking", u, id, "none")
  \/ \E u \in drivers, id \in Ids : Receive(r, "markAsArrived", u, id, "none")
  \/ \E u \in owners, id \in Ids : Receive(r, "confirmBooking", u, id, "none")

completeBooking_request(r, owners) ==
  \E u \in owners, id \in Ids : Receive(r, "completeBooking", u, id, "none")

\* Requests interleave at every store access, with each other, with the
\* sweep and with the clock.
Next ==
  \/ Tick(TickStep)
  \/ updateBookingStatuses_activate
  \/ updateBookingStatuses_complete
  \/ \E r \in Reqs :
        /\ served < MaxRequests - 1
        /\ request(r, MaxBookings, {"d1"}, {"o1"}, {"L1"}, {Hour}, Durations,
                   {"cash", "card"})
  \/ \E r \in Reqs : step(r, TRUE)

Spec == Init /\ [][Next]_vars

\* One request at a time: a handler, and the sweep, run to their end before
\* anything else happens.
Quiet == sweep.pc = "idle" /\ \A r \in Reqs : pc[r] = "idle"

NextSeq ==
  \/ Quiet /\ Tick(TickStep)
  \/ Quiet /\ updateBookingStatuses_activate
  \/ updateBookingStatuses_complete
  \/ /\ Quiet /\ served < MaxRequests
     /\ \/ request(1, MaxBookings, {"d1"}, {"o1"}, {"L1"}, StartTimes,
                   Durations, PaymentInputs)
        \/ completeBooking_request(1, {"o1"})
  \/ step(1, TRUE)
  \/ completeBooking_step(1, TRUE)

SpecSeq == Init /\ [][NextSeq]_vars

\* scanBooking and updateParking, as they are routed
scanBooking_step(r) == scanBooking_find(r) \/ scanBooking_respond(r)

updateParking_step(r) == updateParking_find(r) \/ updateParking_save(r)

\* PATCH /:id/extend with additionalHours from `hours`, while the booking
\* stays within maxDuration hours
extendBooking_request(r, drivers, hours, maxDuration) ==
  \E u \in drivers, id \in Ids, h \in hours :
     /\ bookings[id].duration + h <= maxDuration
     /\ Receive(r, "extendBooking", u, id, h)

getBookingStatus_step(r) ==
  getBookingStatus_find(r) \/ getBookingStatus_respond(r)

\* GET /:id/status, open to every authenticated user
getBookingStatus_request(r, users) ==
  \E u \in users, id \in Ids : Receive(r, "getBookingStatus", u, id, "none")

checkParkingAvailability_step(r) ==
  \/ checkParkingAvailability_find(r)
  \/ checkParkingAvailability_count(r)
  \/ checkParkingAvailability_respond(r)

\* GET /parkings/:id/availability?startTime&duration
checkParkingAvailability_request(r, users, lots, starts, durs) ==
  \E u \in users, l \in lots, s \in starts, d \in durs :
     Receive(r, "checkParkingAvailability", u, 0,
             [id |-> l, startTime |-> s, duration |-> d])

\* A token that is stored, or a token that is not
scanBooking_request(r, owners) ==
  \E u \in owners :
     \E qrCode \in {bookings[i].qrCode : i \in Ids} \cup {<<"PARKLY", 0, 0>>} :
        Receive(r, "scanBooking", u, 0, qrCode)

updateParking_request(r, owners, lots, spots, prices) ==
  \E u \in owners, l \in lots, n \in spots, p \in prices :
     Receive(r, "updateParking", u, 0,
             [id |-> l, totalSpots |-> n, pricePerHour |-> p])

\* One request at a time, from every driver and every owner, with the
\* notification store accepting or refusing each notification, and with the
\* lot's price changed by its owner.
NextOps ==
  \/ Quiet /\ Tick(TickStep)
  \/ /\ Quiet /\ served < MaxRequests
     /\ \/ request(1, MaxBookings, Drivers, Owners, {"L1"}, {Hour}, Durations,
                   {"cash"})
        \/ completeBooking_request(1, Owners)
        \/ scanBooking_request(1, Owners)
        \/ getBookingStatus_request(1, Users)
        \/ checkParkingAvailability_request(1, {"d1"}, {"L1"}, StartTimes,
                                            Durations)
        \/ extendBooking_request(1, Drivers, Durations, MaxDuration + 2)
        \/ updateParking_request(1, Owners, {"L1"}, {0}, {20})
  \/ \E ok \in BOOLEAN : step(1, ok)
  \/ \E ok \in BOOLEAN : completeBooking_step(1, ok)
  \/ scanBooking_step(1)
  \/ getBookingStatus_step(1)
  \/ checkParkingAvailability_step(1)
  \/ updateParking_step(1)

SpecOps == Init /\ [][NextOps]_vars

\* One request at a time against a clock that is read at the instants where
\* the time limits of cancelBooking, markAsArrived, confirmBooking and the
\* overstay fall for a booking that starts at two hours.
ClockStart == 2 * Hour
ClockInstants ==
  {59 * Minute, 59 * Minute + 30, ClockStart - Hour, 60 * Minute + 30,
   61 * Minute, ClockStart - bufferTime, 150 * Minute, 150 * Minute + 30,
   151 * Minute, 211 * Minute, 240 * Minute, 271 * Minute}
ClockDurations == {1, 2}

Advance(instants) ==
  /\ \E t \in instants : t > now /\ now' = t
  /\ UNCHANGED <<parkings, bookings, notifications, pc, req, sweep, served>>

NextClock ==
  \/ Quiet /\ Advance(ClockInstants)
  \/ /\ Quiet /\ served < MaxRequests
     /\ \/ request(1, MaxBookings, {"d1"}, {"o1"}, {"L1"}, {ClockStart},
                   ClockDurations, {"cash", "card"})
        \/ completeBooking_request(1, {"o1"})
  \/ step(1, TRUE)
  \/ completeBooking_step(1, TRUE)

SpecClock == Init /\ [][NextClock]_vars

extendBooking_step(r) ==
  \/ extendBooking_find(r)
  \/ extendBooking_check(r)
  \/ extendBooking_save(r)

\* The handlers other than updateBookingStatus and updateParking, one
\* request at a time, on both lots.
lifecycle_step(r, ok) ==
  \/ createBooking_find(r)
  \/ createBooking_check(r)
  \/ createBooking_create(r)
  \/ createBooking_save(r, ok)
  \/ cancelBooking_find(r)
  \/ cancelBooking_save(r)
  \/ markAsArrived_find(r)
  \/ markAsArrived_save(r)
  \/ confirmBooking_find(r)
  \/ confirmBooking_save(r, ok)

lifecycle_request(r, max, drivers, owners, lots, starts, durs, pms) ==
  \/ \E u \in drivers, l \in lots, s \in starts, d \in durs, pm \in pms :
        createBooking_request(r, max, u, l, s, d, pm)
  \/ \E u \in drivers, id \in Ids : Receive(r, "cancelBooking", u, id, "none")
  \/ \E u \in drivers, id \in Ids : Receive(r, "markAsArrived", u, id, "none")
  \/ \E u \in owners, id \in Ids : Receive(r, "confirmBooking", u, id, "none")

NextAtomic ==
  \/ Quiet /\ Tick(TickStep)
  \/ Quiet /\ updateBookingStatuses_activate
  \/ updateBookingStatuses_complete
  \/ /\ Quiet /\ served < MaxRequests
     /\ \/ lifecycle_request(1, MaxBookings, {"d1"}, Owners, Lots, StartTimes,
                             Durations, {"cash", "card"})
        \/ extendBooking_request(1, {"d1"}, Durations, MaxDuration + 2)
        \/ completeBooking_request(1, Owners)
  \/ lifecycle_step(1, TRUE)
  \/ extendBooking_step(1)
  \/ completeBooking_step(1, TRUE)

SpecAtomic == Init /\ [][NextAtomic]_vars

\* The requests of one driver and one owner on lot L1 that create, cancel,
\* mark as arrived and confirm, one request in flight at a time, under a clock that keeps advancing up to a horizon
\* past the end of every booking and a sweep that keeps running; a request in
\* flight keeps taking its steps.
NextLive ==
  \/ Tick(TickStep)
  \/ updateBookingStatuses_activate
  \/ updateBookingStatuses_complete
  \/ /\ pc[1] = "idle" /\ served < MaxRequests - 1
     /\ lifecycle_request(1, MaxBookings, {"d1"}, {"o1"}, {"L1"}, {Hour},
                          Durations, {"cash", "card"})
  \/ lifecycle_step(1, TRUE)

SpecLive ==
  /\ Init
  /\ [][NextLive]_vars
  /\ WF_vars(Tick(TickStep))
  /\ WF_vars(updateBookingStatuses_activate)
  /\ WF_vars(updateBookingStatuses_complete)
  /\ WF_vars(lifecycle_step(1, TRUE))

\* =================================================================== claims
\* The confirmed or active bookings of lot l that cover the instant t
Covering(l, t) ==
  {i \in Ids : /\ bookings[i].parking = l
               /\ bookings[i].status \in {"confirmed", "active"}
               /\ bookings[i].startTime <= t
               /\ t < bookings[i].endTime}

\* The confirmed or active bookings of lot l that overlap [ws, we)
Overlapping(l, ws, we) ==
  {i \in Ids : /\ bookings[i].parking = l
               /\ bookings[i].status \in {"confirmed", "active"}
               /\ bookings[i].startTime < we
               /\ bookings[i].endTime > ws}

Terminal == {"completed", "cancelled", "expired"}

\* C1: in every reachable state, no instant is covered by more confirmed or
\* active bookings of a lot than the lot has spots.  (The cover is largest at
\* the start of some booking, so the starts are the instants checked.)
C1_NoOverbooking ==
  \A i \in Ids :
     Cardinality(Covering(bookings[i].parking, bookings[i].startTime))
        <= parkings[bookings[i].parking].totalSpots

\* C2: createBooking counts and inserts in two store operations.  A request
\* passes its check exactly on the count it reads then, below the capacity
\* it read, and its insert is not conditioned on the count again: whatever
\* was committed since the check, the booking is stored.
C2_CheckThenInsert ==
  [][\A r \in Reqs :
       /\ (pc[r] = "createBooking_check" /\ pc'[r] = "createBooking_create")
            => /\ Cardinality(Overlapping(req[r].doc.parking,
                     req[r].doc.startTime,
                     req[r].doc.startTime + req[r].doc.duration * Hour))
                    < req[r].parking.totalSpots
               /\ bookings' = bookings
       /\ (pc[r] = "createBooking_create" /\ pc'[r] = "createBooking_save")
            => /\ Len(bookings') = Len(bookings) + 1
               /\ bookings'[Len(bookings')].status = req[r].doc.status
     ]_vars

\* C2 (witness): two createBooking requests and nothing else were received,
\* and the lot of capacity 1 holds two overlapping confirmed bookings.
C2_RaceOverbooks ==
  /\ served = 2
  /\ Len(bookings) = 2
  /\ bookings[1].parking = bookings[2].parking
  /\ parkings[bookings[1].parking].totalSpots = 1
  /\ bookings[1].status = "confirmed" /\ bookings[2].status = "confirmed"
  /\ bookings[1].startTime < bookings[2].endTime
  /\ bookings[2].startTime < bookings[1].endTime

\* C3: with one request at a time, createBooking on an existing, available
\* lot passes its check if and only if fewer than totalSpots confirmed or
\* active bookings of the lot overlap the window (start < windowEnd and
\* end > windowStart); a request that passes is inserted, with its window,
\* and a rejected one leaves the store as it was.
C3_AdmittedIffBelowCapacity ==
  [][/\ (pc[1] = "createBooking_check" /\ pc'[1] # pc[1])
          => LET d == req[1].doc
                 n == Cardinality(Overlapping(d.parking, d.startTime,
                                     d.startTime + d.duration * Hour))
             IN /\ bookings' = bookings
                /\ IF n < parkings[d.parking].totalSpots
                     THEN pc'[1] = "createBooking_create"
                     ELSE pc'[1] = "idle"
     /\ (pc[1] = "createBooking_create" /\ pc'[1] # pc[1])
          => /\ pc'[1] = "createBooking_save"
             /\ Len(bookings') = Len(bookings) + 1
             /\ \A i \in Ids : bookings'[i] = bookings[i]
             /\ LET b == bookings'[Len(bookings')]
                IN /\ b.parking = req[1].doc.parking
                   /\ b.startTime = req[1].doc.startTime
                   /\ b.duration = req[1].doc.duration
    ]_vars

\* C3 (witness): a request was admitted beside a confirmed booking of the
\* same lot that ends exactly when its window starts.
C3_AdmittedTouching ==
  /\ pc[1] = "createBooking_create"
  /\ \E i \in Ids :
        /\ bookings[i].parking = req[1].doc.parking
        /\ bookings[i].status = "confirmed"
        /\ bookings[i].endTime = req[1].doc.startTime

\* C4: every stored booking has endTime = startTime + duration hours.
C4_EndTimeDerived ==
  \A i \in Ids :
     bookings[i].endTime = bookings[i].startTime + bookings[i].duration * Hour

\* C4 (witness): a booking that was extended and then cancelled.
C4_ExtendedThenChanged ==
  \E i \in Ids : bookings[i].extended /\ bookings[i].status = "cancelled"

\* C5: once a booking is completed, cancelled or expired, no step changes its
\* status.
C5_TerminalStays ==
  [][\A i \in Ids :
       bookings[i].status \in Terminal
          => bookings'[i].status = bookings[i].status]_vars

\* C6: confirmBooking on a booking that has not arrived is rejected and
\* leaves the store as it was; a confirmBooking that commits finds the
\* booking arrived; and only the save of a markAsArrived on that booking
\* sets isArrived.  So every successful confirmBooking follows a successful
\* markAsArrived on the same booking.
C6_ConfirmAfterArrival ==
  [][/\ \A r \in Reqs :
          (/\ pc[r] = "confirmBooking" /\ pc'[r] # pc[r]
           /\ req[r].id \in Ids /\ ~bookings[req[r].id].isArrived)
             => pc'[r] = "idle" /\ bookings' = bookings
     /\ \A r \in Reqs :
          (pc[r] = "confirmBooking_save" /\ pc'[r] # pc[r])
             => /\ bookings[req[r].id].isArrived
                /\ bookings'[req[r].id].isArrived
                /\ bookings'[req[r].id].isConfirmed
     /\ \A i \in Ids :
          (~bookings[i].isArrived /\ bookings'[i].isArrived)
             => \E r \in Reqs : /\ pc[r] = "markAsArrived_save"
                                /\ pc'[r] = "idle"
                                /\ req[r].id = i
    ]_vars

\* C6 (witness): a booking confirmed by its lot's owner after its driver
\* arrived.
C6_Confirmed ==
  \E i \in Ids : /\ bookings[i].isConfirmed /\ bookings[i].isArrived
                 /\ bookings[i].status = "active"
                 /\ bookings[i].actualStartTime # Null

\* C7: a booking just created is confirmed if its stored payment method is
\* cash and pending otherwise.
C7_StatusFromPayment ==
  \A r \in Reqs :
     pc[r] = "createBooking_save"
        => LET b == req[r].loaded
           IN b.status = IF b.paymentMethod = "cash" THEN "confirmed"
                                                      ELSE "pending"

\* The other confirmed or active bookings of the lot that overlap [ws, we)
OthersOverlapping(id, l, ws, we) == Overlapping(l, ws, we) \ {id}

\* C8: with one request at a time, an extension whose window [endTime,
\* endTime + additionalHours) is overlapped by totalSpots other confirmed or
\* active bookings of the lot is rejected and leaves the store as it was;
\* the booking itself is not counted: the count the handler takes is the
\* count of the others, and with fewer than totalSpots others the extension
\* goes on to its save.
C8_ExtendRejectedWhenFull ==
  [][(pc[1] = "extendBooking_check" /\ pc'[1] # pc[1])
        => LET id == req[1].id
               b == bookings[id]
               n == Cardinality(OthersOverlapping(id, b.parking, b.endTime,
                                   b.endTime + req[1].arg * Hour))
           IN /\ bookings' = bookings
              /\ id \notin Overlapping(b.parking, b.endTime,
                                       b.endTime + req[1].arg * Hour)
              /\ IF n >= parkings[b.parking].totalSpots
                   THEN pc'[1] = "idle"
                   ELSE pc'[1] = "extendBooking_save"
    ]_vars

\* C8 (witness): an extension is at its check and the lot is full for the
\* extension window.
C8_ExtensionWindowFull ==
  /\ pc[1] = "extendBooking_check"
  /\ LET b == bookings[req[1].id]
     IN Cardinality(OthersOverlapping(req[1].id, b.parking, b.endTime,
                                      b.endTime + req[1].arg * Hour))
          >= parkings[b.parking].totalSpots

\* C9: cancelBooking by the booking's driver goes on to its save if and only
\* if startTime - now is at least one hour and the status is pending or
\* confirmed; the save changes the status to cancelled and nothing else in
\* the store; a rejected request leaves the store as it was.  At 59 minutes
\* to the start the request is too late, at 60 and at 61 minutes it is not.
C9_CancelWindow ==
  [][/\ (/\ pc[1] = "cancelBooking" /\ pc'[1] # pc[1]
         /\ req[1].id \in Ids /\ bookings[req[1].id].user = req[1].user)
          => LET b == bookings[req[1].id]
             IN /\ bookings' = bookings
                /\ IF /\ b.startTime - now >= 60 * Minute
                      /\ b.status \in {"pending", "confirmed"}
                     THEN pc'[1] = "cancelBooking_save"
                     ELSE pc'[1] = "idle"
     /\ (pc[1] = "cancelBooking_save" /\ pc'[1] # pc[1])
          => bookings' = [bookings EXCEPT ![req[1].id].status = "cancelled"]
     /\ cancelBooking_tooLate(ClockStart, ClockStart - 59 * Minute)
     /\ ~cancelBooking_tooLate(ClockStart, ClockStart - 60 * Minute)
     /\ ~cancelBooking_tooLate(ClockStart, ClockStart - 61 * Minute)
    ]_vars

\* C9 (witness): a cancellation received exactly 60 minutes before the start
\* is at its save.
C9_AcceptedAtOneHour ==
  /\ pc[1] = "cancelBooking_save"
  /\ bookings[req[1].id].startTime - now = 60 * Minute
  /\ req[1].doc.status = "cancelled"

\* C10: when completeBooking finds the booking overstayed, it sets
\* overstayDuration to the elapsed minutes less duration * 60 and the charge
\* to 1.5 * pricePerHour for every started hour of overstay; the final
\* amount it reports is totalAmount plus that charge, and both values are
\* what the save stores.  A 2-hour booking with 150 elapsed minutes gets
\* overstayDuration 30 and the charge of one hour.
C10_OverstayCharge ==
  [][/\ (pc[1] = "completeBooking_charge" /\ pc'[1] # pc[1])
          => LET d == req[1].doc
                 c == req'[1].doc
                 price == parkings[d.parking].pricePerHour
                 elapsed == (d.actualEndTime - d.actualStartTime) \div Minute
                 over == elapsed - d.duration * 60
             IN /\ over > 0
                /\ c.overstayDuration = over
                /\ \E h \in 1..5 :
                      /\ 60 * h >= over /\ 60 * (h - 1) < over
                      /\ 2 * c.overstayCharge = 3 * price * h
                      /\ 2 * completeBooking_finalAmount(c)
                            = 2 * d.totalAmount + 3 * price * h
                /\ (d.duration = 2 /\ elapsed = 150)
                      => /\ c.overstayDuration = 30
                         /\ 2 * c.overstayCharge = 3 * price
     /\ (pc[1] = "completeBooking_save" /\ pc'[1] # pc[1])
          => LET c == req[1].doc
                 b == bookings'[req[1].id]
             IN /\ b.overstayDuration = c.overstayDuration
                /\ b.overstayCharge = c.overstayCharge
                /\ b.totalAmount = c.totalAmount
                /\ b.status = "completed"
    ]_vars

\* C10 (witness): a 2-hour booking completed 150 minutes after it was
\* confirmed, stored with 30 minutes and one hour of overstay at 1.5 times
\* the price of its lot.
C10_HalfHourOverstay ==
  \E i \in Ids :
     /\ bookings[i].status = "completed"
     /\ bookings[i].duration = 2
     /\ bookings[i].actualDuration = 150
     /\ bookings[i].overstayDuration = 30
     /\ 2 * bookings[i].overstayCharge
           = 3 * parkings[bookings[i].parking].pricePerHour

\* The positions at which a lifecycle handler evaluates guards
GuardPositions ==
  {"markAsArrived", "confirmBooking", "completeBooking", "extendBooking",
   "extendBooking_check", "cancelBooking", "updateBookingStatus"}

\* C11: a lifecycle request that a guard rejects (it ends at a position
\* where guards are evaluated, before any save) leaves every stored booking
\* as it was; an updateBookingStatus to active more than 30 minutes before
\* the start is rejected and the stored status stays.
C11_RejectionAtomic ==
  [][/\ (pc[1] \in GuardPositions /\ pc'[1] = "idle")
          => bookings' = bookings
     /\ (/\ pc[1] = "updateBookingStatus" /\ pc'[1] # pc[1]
         /\ req[1].arg = "active" /\ req[1].id \in Ids
         /\ bookings[req[1].id].startTime - now > 30 * Minute)
          => /\ pc'[1] = "idle"
             /\ bookings'[req[1].id].status = bookings[req[1].id].status
    ]_vars

\* C11 (witness): an updateBookingStatus to active is received more than 30
\* minutes before the start of a booking that is not active.
C11_EarlyActivation ==
  /\ pc[1] = "updateBookingStatus"
  /\ req[1].arg = "active"
  /\ req[1].id \in Ids
  /\ bookings[req[1].id].startTime - now > 30 * Minute
  /\ bookings[req[1].id].status # "active"

\* C12: the first pass of the sweep, run at time now, sets to active exactly
\* the bookings that are confirmed with startTime <= now <= endTime; the
\* second pass sets to completed exactly the bookings that are then active
\* or confirmed with endTime < now (the now the sweep read at its start);
\* no other field and no other booking changes.
C12_SweepFrame ==
  [][/\ (sweep.pc = "idle" /\ sweep'.pc = "complete")
          => /\ Len(bookings') = Len(bookings)
             /\ \A i \in Ids :
                  bookings'[i] =
                    IF /\ bookings[i].status = "confirmed"
                       /\ bookings[i].startTime <= now
                       /\ now <= bookings[i].endTime
                      THEN [bookings[i] EXCEPT !.status = "active"]
                      ELSE bookings[i]
     /\ (sweep.pc = "complete" /\ sweep'.pc = "idle")
          => /\ Len(bookings') = Len(bookings)
             /\ \A i \in Ids :
                  bookings'[i] =
                    IF /\ bookings[i].status \in {"active", "confirmed"}
                       /\ bookings[i].endTime < sweep.now
                      THEN [bookings[i] EXCEPT !.status = "completed"]
                      ELSE bookings[i]
    ]_vars

\* C12 (witness): after a single createBooking and nothing else, the sweep
\* has run to its end and the booking is completed without any of the fields
\* completeBooking sets.
C12_SweptToCompleted ==
  /\ served = 1
  /\ sweep.pc = "idle"
  /\ \E i \in Ids : /\ bookings[i].status = "completed"
                    /\ bookings[i].actualEndTime = Null
                    /\ bookings[i].actualDuration = Null
                    /\ bookings[i].overstayCharge = 0

\* The times of the half-hour clock
SweepTimes == {k * TickStep : k \in 0..MaxTicks}

\* C13: for every reachable store and every time, a second run of the sweep
\* at the same time changes nothing the first run left.
C13_SweepIdempotent ==
  \A t \in SweepTimes :
     updateBookingStatuses(updateBookingStatuses(bookings, t), t)
        = updateBookingStatuses(bookings, t)

\* C13 (witness): a store in which a run of the sweep at the current time
\* activates one booking and completes another.
C13_SweepActs ==
  \E i, j \in Ids :
     /\ bookings[i].status = "confirmed"
     /\ updateBookingStatuses(bookings, now)[i].status = "active"
     /\ bookings[j].status = "confirmed"
     /\ updateBookingStatuses(bookings, now)[j].status = "completed"

\* C14: the save of confirmBooking writes status active whatever the stored
\* status has become since its guards were evaluated: when the sweep
\* completed the booking in between, the booking is active again.
C14_LastWriteWins ==
  [][\A r \in Reqs :
       (pc[r] = "confirmBooking_save" /\ pc'[r] # pc[r])
          => /\ bookings'[req[r].id].status = "active"
             /\ bookings'[req[r].id].isConfirmed
             /\ bookings'[req[r].id].actualStartTime
                   = req[r].doc.actualStartTime
    ]_vars

\* C14 (witness): after createBooking, markAsArrived and confirmBooking only,
\* confirmBooking is at its save and the booking it loaded as confirmed is
\* stored as completed: the sweep ran in between.
C14_SweptBeforeSave ==
  /\ served = 3
  /\ \E r \in Reqs :
        /\ pc[r] = "confirmBooking_save"
        /\ req[r].loaded.status = "confirmed"
        /\ bookings[req[r].id].status = "completed"

\* C18: every completeBooking that commits stores a notification addressed
\* to the booking's driver and referring to the booking.
C18_CompletionNotified ==
  [][(pc[1] = "completeBooking_save" /\ pc'[1] # pc[1])
        => \E n \in notifications' \ notifications :
              /\ n.user = bookings[req[1].id].user
              /\ n.relatedBooking = req[1].id
    ]_vars

\* C20: for every stored booking and every time t from now on, elapsedTime
\* is 0 without actualStartTime and otherwise the whole minutes from
\* actualStartTime to actualEndTime (or to t when it is unset);
\* remainingTime is duration * 60 without actualStartTime and otherwise
\* duration * 60 - elapsedTime, or 0 when that is negative; isOverstayed is
\* false without actualStartTime or when completed, and otherwise
\* elapsedTime > duration * 60.  So remainingTime is never negative and
\* isOverstayed implies remainingTime = 0.
C20_DerivedTimers ==
  \A i \in Ids :
     \A t \in {now} \cup {u \in ClockInstants : u > now} :
        LET b == bookings[i]
            e == elapsedTime(b, t)
            rem == remainingTime(b, t)
            until == IF b.actualEndTime = Null THEN t ELSE b.actualEndTime
            booked == b.duration * 60
        IN /\ IF b.actualStartTime = Null
                THEN e = 0 /\ rem = booked /\ ~isOverstayed(b, t)
                ELSE /\ e * 60 <= until - b.actualStartTime
                     /\ until - b.actualStartTime < (e + 1) * 60
                     /\ rem = IF booked - e > 0 THEN booked - e ELSE 0
                     /\ isOverstayed(b, t)
                          <=> (b.status # "completed" /\ e > booked)
           /\ rem >= 0
           /\ isOverstayed(b, t) => rem = 0

\* C20 (witness): an active booking that is overstayed now, with no time
\* remaining.
C20_Overstayed ==
  \E i \in Ids :
     /\ bookings[i].status = "active"
     /\ isOverstayed(bookings[i], now)
     /\ remainingTime(bookings[i], now) = 0
     /\ elapsedTime(bookings[i], now) > bookings[i].duration * 60

\* C15: markAsArrived, cancelBooking and extendBooking from anyone but the
\* booking's driver, and confirmBooking, completeBooking and scanBooking from
\* anyone but the owner of the booking's lot, end at once and change nothing
\* in the store; a request that is past these guards is the driver's,
\* respectively the owner's.
C15_OnlyDriverOnlyOwner ==
  [][/\ (/\ pc[1] \in {"markAsArrived", "cancelBooking", "extendBooking"}
         /\ pc'[1] # pc[1]
         /\ req[1].id \in Ids /\ bookings[req[1].id].user # req[1].user)
          => /\ pc'[1] = "idle"
             /\ UNCHANGED <<bookings, parkings, notifications>>
     /\ (/\ pc[1] \in {"confirmBooking", "completeBooking"}
         /\ pc'[1] # pc[1]
         /\ req[1].id \in Ids
         /\ parkings[bookings[req[1].id].parking].owner # req[1].user)
          => /\ pc'[1] = "idle"
             /\ UNCHANGED <<bookings, parkings, notifications>>
     /\ (/\ pc[1] = "scanBooking" /\ pc'[1] # pc[1]
         /\ \E i \in Ids : /\ bookings[i].qrCode = req[1].arg
                           /\ parkings[bookings[i].parking].owner # req[1].user)
          => /\ pc'[1] = "idle"
             /\ UNCHANGED <<bookings, parkings, notifications>>
     /\ pc[1] \in {"markAsArrived_save", "cancelBooking_save",
                   "extendBooking_check", "extendBooking_save"}
          => bookings[req[1].id].user = req[1].user
     /\ pc[1] \in {"confirmBooking_save", "completeBooking_charge",
                   "completeBooking_save", "scanBooking_respond"}
          => parkings[bookings[req[1].id].parking].owner = req[1].user
    ]_vars

\* C15 (witness): markAsArrived is received from a driver who did not make
\* the booking, at a time and in a state where the booking's own driver
\* would be let through.
C15_OtherDriverArrives ==
  /\ pc[1] = "markAsArrived"
  /\ req[1].id \in Ids
  /\ bookings[req[1].id].user # req[1].user
  /\ bookings[req[1].id].status = "confirmed"
  /\ ~bookings[req[1].id].isArrived
  /\ bookings[req[1].id].startTime <= now + 30 * Minute

\* C16: no step of scanBooking changes the store, and a scan by the owner
\* of the lot of the booking that carries the token answers isValid = true
\* if and only if startTime <= now <= endTime and the status is active.
C16_ScanReadOnly ==
  [][/\ (pc[1] \in {"scanBooking", "scanBooking_respond"} /\ pc'[1] # pc[1])
          => UNCHANGED <<bookings, parkings, notifications>>
     /\ (pc[1] = "scanBooking" /\ pc'[1] # pc[1])
          => \A i \in Ids :
                (/\ bookings[i].qrCode = req[1].arg
                 /\ parkings[bookings[i].parking].owner = req[1].user)
                   => /\ pc'[1] = "scanBooking_respond"
                      /\ req'[1].arg
                           <=> /\ bookings[i].startTime <= now
                               /\ now <= bookings[i].endTime
                               /\ bookings[i].status = "active"
    ]_vars

\* C16 (witness): a scan by the lot's owner is answered with isValid = true.
C16_ValidScan ==
  /\ pc[1] = "scanBooking_respond"
  /\ req[1].arg = TRUE
  /\ bookings[req[1].id].status = "active"

\* C17: the save of createBooking, confirmBooking and completeBooking
\* commits the booking change and ends the request whether or not the
\* notification is stored.
C17_NotificationBestEffort ==
  [][/\ (/\ pc[1] \in {"createBooking_save", "confirmBooking_save",
                       "completeBooking_save"}
         /\ pc'[1] # pc[1])
          => /\ pc'[1] = "idle"
             /\ bookings'[req[1].id].status = req[1].doc.status
             /\ bookings'[req[1].id].qrCode = req[1].doc.qrCode
             /\ bookings'[req[1].id].isConfirmed = req[1].doc.isConfirmed
             /\ bookings'[req[1].id].actualStartTime
                   = req[1].doc.actualStartTime
             /\ bookings'[req[1].id].actualEndTime = req[1].doc.actualEndTime
             /\ bookings'[req[1].id].overstayCharge
                   = req[1].doc.overstayCharge
    ]_vars

\* C17 (witness): a booking was created and confirmed while the
\* notification store refused both notifications.
C17_ConfirmedUnnotified ==
  \E i \in Ids :
     /\ bookings[i].isConfirmed
     /\ bookings[i].status = "active"
     /\ bookings[i].qrCode # <<>>
     /\ \A n \in notifications : n.relatedBooking # i

\* C19: every stored booking's totalAmount is its duration times the
\* pricePerHour of its lot.
C19_TotalAmountAtLotPrice ==
  \A i \in Ids :
     bookings[i].totalAmount
        = bookings[i].duration * parkings[bookings[i].parking].pricePerHour

\* C21: the save of an extension by e hours leaves the status, adds e to
\* the duration, e hours to endTime and e times the lot's pricePerHour to
\* totalAmount, and sets extended; the first extension records the endTime
\* it found as originalEndTime, and nothing changes originalEndTime after
\* that.
C21_ExtensionEffects ==
  [][/\ (pc[1] = "extendBooking_save" /\ pc'[1] # pc[1])
          => LET b == bookings[req[1].id]
                 c == bookings'[req[1].id]
                 e == req[1].arg
             IN /\ c.status = b.status
                /\ c.duration = b.duration + e
                /\ c.endTime = b.endTime + e * Hour
                /\ c.totalAmount
                     = b.totalAmount + e * parkings[b.parking].pricePerHour
                /\ c.extended
                /\ c.originalEndTime
                     = IF b.extended THEN b.originalEndTime ELSE b.endTime
     /\ pc[1] # "extendBooking_save"
          => \A i \in Ids :
                bookings'[i].originalEndTime = bookings[i].originalEndTime
    ]_vars

\* C21 (witness): a booking extended twice: its end is two hours after the
\* end it had before the first extension.
C21_ExtendedTwice ==
  \E i \in Ids :
     /\ bookings[i].extended
     /\ bookings[i].duration = 3
     /\ bookings[i].endTime = bookings[i].originalEndTime + 2 * Hour

\* C22: completeBooking goes past its guards only for an active booking
\* with actualStartTime set; its save stores actualEndTime = now, the whole
\* minutes since actualStartTime as actualDuration and status completed;
\* overstayDuration and overstayCharge are positive when these minutes
\* exceed duration * 60 and are both 0 otherwise.
C22_CompletionEffects ==
  [][/\ (pc[1] = "completeBooking" /\ pc'[1] \notin {"completeBooking", "idle"})
          => /\ bookings[req[1].id].status = "active"
             /\ bookings[req[1].id].actualStartTime # Null
     /\ (pc[1] = "completeBooking_save" /\ pc'[1] # pc[1])
          => LET b == bookings[req[1].id]
                 c == bookings'[req[1].id]
                 since == now - b.actualStartTime
             IN /\ c.status = "completed"
                /\ c.actualEndTime = now
                /\ c.actualDuration * Minute <= since
                /\ since < (c.actualDuration + 1) * Minute
                /\ IF c.actualDuration > b.duration * 60
                     THEN c.overstayDuration > 0 /\ c.overstayCharge > 0
                     ELSE c.overstayDuration = 0 /\ c.overstayCharge = 0
    ]_vars

\* C22 (witness): a booking completed exactly duration * 60 minutes after
\* its actual start, without overstay values.
C22_CompletedOnTime ==
  \E i \in Ids :
     /\ bookings[i].status = "completed"
     /\ bookings[i].actualEndTime # Null
     /\ bookings[i].actualDuration = bookings[i].duration * 60
     /\ bookings[i].overstayDuration = 0
     /\ bookings[i].overstayCharge = 0

\* C23: when requests and sweeps run one at a time, the capacity of no lot
\* changes and updateBookingStatus is not used, no lot has, at the start of
\* any booking (where the cover is largest), more confirmed or active
\* bookings than it has spots.
C23_AtomicNoOverbooking ==
  \A l \in Lots :
     \A t \in {bookings[i].startTime : i \in Ids} :
        Cardinality(Covering(l, t)) <= parkings[l].totalSpots

\* C23 (witness): lot L1, with one spot, holds two confirmed or active
\* bookings of which one has been extended.
C23_ExtendedBesideAnother ==
  \E i \in Ids, j \in Ids :
     /\ i # j
     /\ bookings[i].parking = "L1" /\ bookings[j].parking = "L1"
     /\ bookings[i].status \in {"confirmed", "active"}
     /\ bookings[j].status \in {"confirmed", "active"}
     /\ bookings[i].extended

\* C24: in every reachable state, every active booking has isArrived and
\* isConfirmed set and an actualStartTime.
C24_ActiveIsArrivedConfirmed ==
  \A i \in Ids :
     bookings[i].status = "active"
        => /\ bookings[i].isArrived
           /\ bookings[i].isConfirmed
           /\ bookings[i].actualStartTime # Null

\* C25: in every reachable state, every booking with isConfirmed set has
\* isArrived set and an actualStartTime.
C25_ConfirmedIsArrived ==
  \A i \in Ids :
     bookings[i].isConfirmed
        => bookings[i].isArrived /\ bookings[i].actualStartTime # Null

\* C25 (witness): a booking confirmed by the owner after the driver's
\* arrival, completed since.
C25_ConfirmedThenCompleted ==
  \E i \in Ids :
     /\ bookings[i].isConfirmed
     /\ bookings[i].isArrived
     /\ bookings[i].actualStartTime # Null
     /\ bookings[i].status = "completed"

\* C26: whenever getBookingStatus answers canComplete = true, completeBooking
\* by the same user on the same booking, in the store state the answer was
\* computed from, passes its guards.
C26_CanCompleteIsAccepted ==
  (pc[1] = "getBookingStatus_respond" /\ req[1].arg.canComplete)
     => ~completeBooking_rejects(req[1].user, req[1].id)

\* C27: a save of updateBookingStatus that changes the booking's status is
\* requested by the booking's driver or by the owner of the booking's lot.
C27_StatusByDriverOrLotOwner ==
  [][(/\ pc[1] = "updateBookingStatus_save"
      /\ pc'[1] # pc[1]
      /\ bookings'[req[1].id].status # bookings[req[1].id].status)
        => \/ req[1].user = bookings[req[1].id].user
           \/ req[1].user = parkings[bookings[req[1].id].parking].owner
    ]_vars

\* C28: every booking in the store has a QR token.
C28_EveryBookingHasToken ==
  \A i \in Ids : bookings[i].qrCode # <<>>

C30_EventuallyTerminal ==
  \A i \in 1..MaxBookings :
     (Len(bookings) >= i)
        ~> (Len(bookings) >= i /\ bookings[i].status \in Terminal)

==========================================================================
